---- MODULE Spec2Model ----
(***************************************************************************)
(* Model of the Playwright verification scripts of xIT-Video-Studio:       *)
(*   src/verify_ui.py and src/verification/verify_*.py.                    *)
(*                                                                         *)
(* Every script is a straight-line program of Playwright calls, some of    *)
(* them wrapped in try/except/finally.  A script is modelled as the        *)
(* sequence of its statements (one record per statement, carrying the      *)
(* source line, the call, the try-region the statement sits in and the     *)
(* branch condition that guards it); one interpreter executes them with    *)
(* Python's exception semantics.  The page under test is the environment:  *)
(* every call that can time out or fail may raise, every visibility or     *)
(* equality check may come out either way.                                 *)
(***************************************************************************)
EXTENDS Integers, Sequences, FiniteSets

VARIABLES
  script,     \* script[r]  : the script run r executes
  pc,         \* pc[r]      : index of the next statement of run r
  facts,      \* facts[r]   : outcomes of the conditions evaluated so far
  pending,    \* pending[r] : line of the exception in flight while finally runs
  exc,        \* exc[r]     : line of the exception that left the script (0: none)
  trace,      \* trace[r]   : the calls issued so far, in order, with their result
  dirExists,  \* whether the directory "verification" exists
  files,      \* files[p]   : the runs that have written file p
  browser,    \* browser[r] : "none", "open" or "closed": the browser of run r
  elapsed     \* elapsed[r] : time the current call has been waiting, in ticks

vars == <<script, pc, facts, pending, exc, trace, dirExists, files,
          browser, elapsed>>

\* Two scenario runs (two processes started from the same working directory).
Runs == {"run_a", "run_b"}

Scripts == {"verify_ui", "verify_auto_edit", "verify_links", "verify_logo",
            "verify_menubar", "verify_renames", "verify_scrollbars",
            "verify_scrollbars_overlay"}

Always == <<>>

\* One statement: line, call, try-region, guarding condition, tag, file path.
St(ln, op, reg, when, tag, path) ==
  [ln |-> ln, op |-> op, reg |-> reg, when |-> when, tag |-> tag, path |-> path]

\* A call outside any branch, with no tag and no path.
Call(ln, op, reg) == St(ln, op, reg, Always, "", "")

(***************************************************************************)
(* The scripts.  Regions: "main" (the __main__ block, before the scenario  *)
(* function is entered), "pre" (inside the function, before any try),      *)
(* "plain" (function body outside any try), "try", "exc" (except handler), *)
(* "excTry" (a nested try inside the except handler whose own handler is   *)
(* `except: pass`), "fin" (finally block), "popupTry" / "popupExc" (the    *)
(* try around the Documentation popup in verify_links and its handler).    *)
(***************************************************************************)

\* src/verify_ui.py
ProgUI == <<
  Call(6,  "launch",            "pre"),
  Call(7,  "new_page",          "pre"),
  Call(12, "goto",              "try"),
  Call(17, "wait_for_selector", "try"),
  St(21, "screenshot", "try", Always, "", "verification_full.png"),
  St(29, "screenshot", "try", Always, "", "verification_toolbar.png"),
  St(31, "print",      "try", Always, "ok", ""),
  St(34, "print",      "exc", Always, "err", ""),
  St(36, "screenshot", "exc", Always, "", "verification_error.png"),
  Call(38, "close",             "fin") >>

\* src/verification/verify_auto_edit.py
ProgAutoEdit == <<
  Call(6,  "launch",   "pre"),
  Call(7,  "new_page", "pre"),
  Call(10, "goto",     "plain"),
  Call(11, "sleep",    "plain"),
  St(19, "count",      "plain", Always, "textarea", ""),
  St(20, "print",      "plain", <<"textarea", TRUE>>, "info", ""),
  St(21, "screenshot", "plain", <<"textarea", TRUE>>, "",
     "verification/initial_state.png"),
  Call(23, "close",    "plain") >>

\* src/verification/verify_links.py, with the click issued before the popup
\* capture is armed (lines 54 and 55 exchanged).
ProgLinks_ClickFirst == <<
  Call(5,  "launch",            "pre"),
  Call(6,  "new_page",          "pre"),
  Call(9,  "goto",              "plain"),
  Call(12, "wait_for_selector", "plain"),
  Call(15, "click",             "plain"),
  St(18, "screenshot",        "plain", Always, "", "verification/menu_screenshot.png"),
  St(21, "is_visible",        "plain", Always, "about", ""),
  St(22, "print",             "plain", <<"about", TRUE>>, "info", ""),
  St(23, "click",             "plain", <<"about", TRUE>>, "", ""),
  St(26, "wait_for_selector", "plain", <<"about", TRUE>>, "", ""),
  St(29, "screenshot",        "plain", <<"about", TRUE>>, "",
     "verification/about_modal_screenshot.png"),
  St(32, "get_attribute",     "plain", <<"about", TRUE>>, "", ""),
  St(35, "compare",           "plain", <<"about", TRUE>>, "link", ""),
  St(36, "print",             "plain", <<"link", TRUE>>, "success", ""),
  St(38, "print",             "plain", <<"link", FALSE>>, "failure", ""),
  St(40, "print",             "plain", <<"about", FALSE>>, "notfound", ""),
  Call(43, "reload",            "plain"),
  Call(44, "wait_for_selector", "plain"),
  Call(45, "click",             "plain"),
  St(55, "click",             "popupTry", Always, "doc", ""),
  Call(54, "expect_popup",      "popupTry"),
  Call(54, "popup_wait",        "popupTry"),
  Call(56, "popup_value",       "popupTry"),
  Call(57, "popup_url",         "popupTry"),
  St(59, "compare",           "popupTry", Always, "doc", ""),
  St(60, "print",             "popupTry", <<"doc", TRUE>>, "success", ""),
  St(62, "print",             "popupTry", <<"doc", FALSE>>, "failure", ""),
  St(65, "print",             "popupExc", Always, "err", ""),
  Call(67, "close",             "plain") >>

\* src/verification/verify_links.py, without the try/except around the
\* Documentation popup (lines 53 and 64-65 dropped).
ProgLinks_NoPopupTry == <<
  Call(5,  "launch",            "pre"),
  Call(6,  "new_page",          "pre"),
  Call(9,  "goto",              "plain"),
  Call(12, "wait_for_selector", "plain"),
  Call(15, "click",             "plain"),
  St(18, "screenshot",        "plain", Always, "", "verification/menu_screenshot.png"),
  St(21, "is_visible",        "plain", Always, "about", ""),
  St(22, "print",             "plain", <<"about", TRUE>>, "info", ""),
  St(23, "click",             "plain", <<"about", TRUE>>, "", ""),
  St(26, "wait_for_selector", "plain", <<"about", TRUE>>, "", ""),
  St(29, "screenshot",        "plain", <<"about", TRUE>>, "",
     "verification/about_modal_screenshot.png"),
  St(32, "get_attribute",     "plain", <<"about", TRUE>>, "", ""),
  St(35, "compare",           "plain", <<"about", TRUE>>, "link", ""),
  St(36, "print",             "plain", <<"link", TRUE>>, "success", ""),
  St(38, "print",             "plain", <<"link", FALSE>>, "failure", ""),
  St(40, "print",             "plain", <<"about", FALSE>>, "notfound", ""),
  Call(43, "reload",            "plain"),
  Call(44, "wait_for_selector", "plain"),
  Call(45, "click",             "plain"),
  Call(54, "expect_popup",      "plain"),
  St(55, "click",             "plain", Always, "doc", ""),
  Call(54, "popup_wait",        "plain"),
  Call(56, "popup_value",       "plain"),
  Call(57, "popup_url",         "plain"),
  St(59, "compare",           "plain", Always, "doc", ""),
  St(60, "print",             "plain", <<"doc", TRUE>>, "success", ""),
  St(62, "print",             "plain", <<"doc", FALSE>>, "failure", ""),
  Call(67, "close",             "plain") >>

\* src/verification/verify_links.py.  `with page.expect_popup()` is two
\* statements: entering the block arms the capture (expect_popup), leaving it
\* waits for the popup (popup_wait) and raises when none opened in time.
ProgLinks == <<
  Call(5,  "launch",            "pre"),
  Call(6,  "new_page",          "pre"),
  Call(9,  "goto",              "plain"),
  Call(12, "wait_for_selector", "plain"),
  Call(15, "click",             "plain"),
  St(18, "screenshot",        "plain", Always, "", "verification/menu_screenshot.png"),
  St(21, "is_visible",        "plain", Always, "about", ""),
  St(22, "print",             "plain", <<"about", TRUE>>, "info", ""),
  St(23, "click",             "plain", <<"about", TRUE>>, "", ""),
  St(26, "wait_for_selector", "plain", <<"about", TRUE>>, "", ""),
  St(29, "screenshot",        "plain", <<"about", TRUE>>, "",
     "verification/about_modal_screenshot.png"),
  St(32, "get_attribute",     "plain", <<"about", TRUE>>, "", ""),
  St(35, "compare",           "plain", <<"about", TRUE>>, "link", ""),
  St(36, "print",             "plain", <<"link", TRUE>>, "success", ""),
  St(38, "print",             "plain", <<"link", FALSE>>, "failure", ""),
  St(40, "print",             "plain", <<"about", FALSE>>, "notfound", ""),
  Call(43, "reload",            "plain"),
  Call(44, "wait_for_selector", "plain"),
  Call(45, "click",             "plain"),
  Call(54, "expect_popup",      "popupTry"),
  St(55, "click",             "popupTry", Always, "doc", ""),
  Call(54, "popup_wait",        "popupTry"),
  Call(56, "popup_value",       "popupTry"),
  Call(57, "popup_url",         "popupTry"),
  St(59, "compare",           "popupTry", Always, "doc", ""),
  St(60, "print",             "popupTry", <<"doc", TRUE>>, "success", ""),
  St(62, "print",             "popupTry", <<"doc", FALSE>>, "failure", ""),
  St(65, "print",             "popupExc", Always, "err", ""),
  Call(67, "close",             "plain") >>

\* src/verification/verify_logo.py, with the browser closed in the except
\* handler before the error screenshot is taken.
ProgLogo_CloseBeforeErrorShot == <<
  Call(6,  "launch",              "pre"),
  Call(7,  "new_page",            "pre"),
  Call(15, "goto",                "try"),
  Call(18, "wait_for_load_state", "try"),
  St(23, "screenshot", "try", Always, "", "verification/logo_verification.png"),
  St(27, "is_visible", "try", Always, "logo", ""),
  St(28, "print",      "try", <<"logo", TRUE>>, "success", ""),
  St(30, "print",      "try", <<"logo", FALSE>>, "notfound", ""),
  Call(33, "title",               "try"),
  St(37, "print",      "exc", Always, "err", ""),
  Call(38, "close",               "exc"),
  St(39, "screenshot", "exc", Always, "", "verification/error_screenshot.png"),
  Call(41, "close",               "fin") >>

\* src/verification/verify_logo.py
ProgLogo == <<
  Call(6,  "launch",              "pre"),
  Call(7,  "new_page",            "pre"),
  Call(15, "goto",                "try"),
  Call(18, "wait_for_load_state", "try"),
  St(23, "screenshot", "try", Always, "", "verification/logo_verification.png"),
  St(27, "is_visible", "try", Always, "logo", ""),
  St(28, "print",      "try", <<"logo", TRUE>>, "success", ""),
  St(30, "print",      "try", <<"logo", FALSE>>, "notfound", ""),
  Call(33, "title",               "try"),
  St(37, "print",      "exc", Always, "err", ""),
  St(39, "screenshot", "exc", Always, "", "verification/error_screenshot.png"),
  Call(41, "close",               "fin") >>

\* src/verification/verify_menubar.py (lines 25-26 run before the function)
ProgMenubar == <<
  St(25, "exists",   "main", Always, "dir", ""),
  St(26, "makedirs", "main", <<"dir", FALSE>>, "", ""),
  Call(5,  "launch",            "pre"),
  Call(6,  "new_page",          "pre"),
  Call(9,  "goto",              "plain"),
  Call(12, "wait_for_selector", "plain"),
  St(16, "screenshot", "plain", Always, "", "verification/menubar_icons.png"),
  St(19, "screenshot", "plain", Always, "", "verification/full_page.png"),
  Call(21, "close",             "plain") >>

\* src/verification/verify_renames.py (lines 35-36 run before the function)
ProgRenames == <<
  St(35, "exists",   "main", Always, "dir", ""),
  St(36, "makedirs", "main", <<"dir", FALSE>>, "", ""),
  Call(5,  "launch",            "pre"),
  Call(6,  "new_page",          "pre"),
  Call(9,  "goto",              "plain"),
  Call(12, "wait_for_selector", "plain"),
  Call(15, "expect_visible",    "plain"),
  Call(16, "expect_visible",    "plain"),
  Call(17, "expect_visible",    "plain"),
  Call(20, "click",             "plain"),
  Call(21, "expect_visible",    "plain"),
  Call(24, "click",             "plain"),
  Call(25, "expect_visible",    "plain"),
  St(29, "screenshot", "plain", Always, "", "verification/renamed_panels.png"),
  Call(31, "close",             "plain") >>

\* src/verification/verify_scrollbars.py
ProgScrollbars == <<
  Call(5,  "launch",            "pre"),
  Call(7,  "new_context",       "pre"),
  Call(8,  "new_page",          "pre"),
  Call(13, "goto",              "try"),
  Call(18, "wait_for_selector", "try"),
  Call(23, "evaluate",          "try"),
  Call(33, "evaluate",          "try"),
  St(37, "screenshot", "try",    Always, "", "verification/scrollbar_dark.png"),
  St(39, "print",      "try",    Always, "ok", ""),
  St(42, "print",      "exc",    Always, "err", ""),
  St(44, "screenshot", "excTry", Always, "", "verification/error_state.png"),
  St(45, "print",      "excTry", Always, "info", ""),
  Call(49, "close",             "fin") >>

\* src/verification/verify_scrollbars_overlay.py, with the error screenshot
\* still written to the path of verify_scrollbars.py it was copied from.
ProgScrollbarsOverlay_SamePath == <<
  Call(5,  "launch",            "pre"),
  Call(6,  "new_context",       "pre"),
  Call(7,  "new_page",          "pre"),
  Call(11, "goto",              "try"),
  Call(14, "wait_for_selector", "try"),
  Call(19, "evaluate",          "try"),
  St(47, "screenshot", "try",    Always, "", "verification/scrollbar_dark_overlay.png"),
  St(48, "print",      "try",    Always, "ok", ""),
  St(51, "print",      "exc",    Always, "err", ""),
  St(53, "screenshot", "excTry", Always, "", "verification/error_state.png"),
  Call(57, "close",             "fin") >>

\* src/verification/verify_scrollbars_overlay.py
ProgScrollbarsOverlay == <<
  Call(5,  "launch",            "pre"),
  Call(6,  "new_context",       "pre"),
  Call(7,  "new_page",          "pre"),
  Call(11, "goto",              "try"),
  Call(14, "wait_for_selector", "try"),
  Call(19, "evaluate",          "try"),
  St(47, "screenshot", "try",    Always, "", "verification/scrollbar_dark_overlay.png"),
  St(48, "print",      "try",    Always, "ok", ""),
  St(51, "print",      "exc",    Always, "err", ""),
  St(53, "screenshot", "excTry", Always, "", "verification/error_state_overlay.png"),
  Call(57, "close",             "fin") >>

Prog(s) ==
  CASE s = "verify_ui"                 -> ProgUI
    [] s = "verify_auto_edit"          -> ProgAutoEdit
    [] s = "verify_links"              -> ProgLinks
    [] s = "verify_logo"               -> ProgLogo
    [] s = "verify_menubar"            -> ProgMenubar
    [] s = "verify_renames"            -> ProgRenames
    [] s = "verify_scrollbars"         -> ProgScrollbars
    [] s = "verify_scrollbars_overlay" -> ProgScrollbarsOverlay
    [] OTHER                           -> <<>>

\* Every file path a script writes.
Paths == UNION { { Prog(s)[i].path : i \in 1..Len(Prog(s)) } \ {""} : s \in Scripts }

\* The paths that lie in the directory "verification" (verify_ui.py writes into
\* the working directory itself).
InVerificationDir(p) == p \notin {"", "verification_full.png",
                                  "verification_toolbar.png",
                                  "verification_error.png"}

(***************************************************************************)
(* Python control flow over a script.                                      *)
(***************************************************************************)

HandlerRegs == {"exc", "excTry", "popupExc"}

\* The calls whose outcome is a branch condition, not an exception.
ProbeOps == {"is_visible", "count", "compare", "exists"}

\* The calls that create the session (playwright launch / context / page).
SessionOps == {"launch", "new_context", "new_page"}

\* The page calls that can time out or fail.
PageOps == {"goto", "wait_for_selector", "wait_for_load_state", "click",
            "get_attribute", "reload", "evaluate", "expect_visible",
            "popup_wait"}

\* The calls that always complete (no timeout, no target to find).
QuietOps == {"sleep", "title", "expect_popup", "popup_value", "popup_url"}

RaisingOps == SessionOps \cup PageOps \cup {"screenshot", "close"}

\* Whether statement st is on the path chosen by the conditions f.
StepOn(st, f) == st.when = Always \/ st.when \in f

\* The first index in js (a set of indices), or the end of the program.
FirstOf(P, js) == IF js = {} THEN Len(P) + 1
                  ELSE CHOOSE j \in js : \A k \in js : j <= k

\* The statement executed after statement i completes normally: the next one
\* on the chosen path; a handler is entered only by an exception.
NextPc(P, i, f) ==
  FirstOf(P, { j \in (i+1)..Len(P) :
                 /\ StepOn(P[j], f)
                 /\ (P[j].reg \in HandlerRegs => P[i].reg \in HandlerRegs) })

\* Exception handling in which a statement that raises inside a try block
\* is skipped and the block carries on with the statement after it.
RaiseTo_Resume(P, i) ==
  LET after(regs) == FirstOf(P, { j \in (i+1)..Len(P) : P[j].reg \in regs })
  IN CASE P[i].reg = "try"      -> i + 1
       [] P[i].reg = "popupTry" -> after({"popupExc"})
       [] P[i].reg = "exc"      -> after({"fin"})
       [] P[i].reg = "excTry"   -> after({"fin"})
       [] OTHER                 -> Len(P) + 1

\* Exception handling in which an exception raised inside an except handler
\* leaves the function at once, the finally block not being run.
RaiseTo_NoFinally(P, i) ==
  LET after(regs) == FirstOf(P, { j \in (i+1)..Len(P) : P[j].reg \in regs })
  IN CASE P[i].reg = "try"      -> after({"exc", "excTry"})
       [] P[i].reg = "popupTry" -> after({"popupExc"})
       [] P[i].reg = "excTry"   -> after({"fin"})
       [] OTHER                 -> Len(P) + 1

\* Where control goes when statement i raises: the handler of the enclosing
\* try, the finally block, or out of the script (Len(P) + 1).
RaiseTo(P, i) ==
  LET after(regs) == FirstOf(P, { j \in (i+1)..Len(P) : P[j].reg \in regs })
  IN CASE P[i].reg = "try"      -> after({"exc", "excTry"})
       [] P[i].reg = "popupTry" -> after({"popupExc"})
       [] P[i].reg = "exc"      -> after({"fin"})
       [] P[i].reg = "excTry"   -> after({"fin"})
       [] OTHER                 -> Len(P) + 1

\* Whether an exception raised by statement i is still in flight when control
\* reaches RaiseTo(P, i): an except handler has no handler of its own.
StaysPending(P, i) == P[i].reg = "exc"

\* Whether statement i is the last one of a finally block.
EndsFinally(P, i) ==
  P[i].reg = "fin" /\ (i = Len(P) \/ P[i+1].reg # "fin")

\* pc[r] = 0: the process of run r was never started.
Running(r) == pc[r] \in 1..Len(Prog(script[r]))
Done(r)    == pc[r] > Len(Prog(script[r]))
Cur(r)     == Prog(script[r])[pc[r]]

\* Exit status of the process: an exception that leaves the script ends the
\* interpreter with status 1, a normal return with status 0.
ExitStatus(r) == IF exc[r] = 0 THEN 0 ELSE 1

\* The suspension points: the calls that wait for the page up to a timeout.
SuspendOps == PageOps \ {"evaluate"}

\* The clock of the model stops counting at ClockCap ticks.
ClockCap == 12

\* The timeout of a call in milliseconds: the timeout= argument where the
\* script passes one, else Playwright's default (30 s, 5 s for expect).
TimeoutMs(s, st) ==
  CASE st.op = "expect_visible"                         -> 5000
    [] s = "verify_ui" /\ st.ln = 17                   -> 30000
    [] s = "verify_logo" /\ st.ln = 15                 -> 60000
    [] s = "verify_scrollbars" /\ st.ln = 18           -> 10000
    [] s = "verify_scrollbars_overlay" /\ st.ln = 14   -> 10000
    [] OTHER                                           -> 30000

\* A call made with timeout=0: Playwright then waits without limit.
Timeout_Disabled(s, st) == 0

\* The timeout of a call in ticks of 5 s; 0 means no timeout.
Timeout(s, st) == TimeoutMs(s, st) \div 5000

Suspended(r) == Running(r) /\ Cur(r).op \in SuspendOps

\* The current call of run r may go on waiting: its timeout has not elapsed.
CanWait(r) ==
  LET t == Timeout(script[r], Cur(r))
  IN t = 0 \/ elapsed[r] < t

\* One executed call: statement st (number i of its script) ended with res;
\* late tells that it ended because its timeout had elapsed.
Entry(st, res, i, late) ==
  [ln |-> st.ln, op |-> st.op, reg |-> st.reg, tag |-> st.tag, path |-> st.path,
   res |-> res, dir |-> dirExists, at |-> i, late |-> late]

Log(r, res) ==
  trace' = [trace EXCEPT ![r] =
              Append(@, Entry(Cur(r), res, pc[r],
                              res = "raise" /\ Suspended(r) /\ ~CanWait(r)))]

\* Leaving the `with sync_playwright() as p:` block stops Playwright, which
\* shuts down a browser that is still open.
WithExit(b) == IF b = "open" THEN "closed" ELSE b

\* The browser of run r after a call that left it in state b: the call may
\* have been the last one of the `with` block.
Session(r, b) ==
  browser' = [browser EXCEPT ![r] =
                IF pc'[r] > Len(Prog(script[r])) THEN WithExit(b) ELSE b]

\* Statement pc[r] completes normally, the conditions now being f.
Complete(r, f) ==
  LET P == Prog(script[r])
      i == pc[r]
  IN /\ facts' = [facts EXCEPT ![r] = f]
     /\ elapsed' = [elapsed EXCEPT ![r] = 0]
     /\ IF EndsFinally(P, i) /\ pending[r] # 0
        THEN /\ pc' = [pc EXCEPT ![r] = Len(P) + 1]
             /\ exc' = [exc EXCEPT ![r] = pending[r]]
             /\ pending' = [pending EXCEPT ![r] = 0]
        ELSE /\ pc' = [pc EXCEPT ![r] = NextPc(P, i, f)]
             /\ UNCHANGED <<exc, pending>>

\* Statement pc[r] raises.
Throw(r) ==
  LET P == Prog(script[r])
      i == pc[r]
      t == RaiseTo(P, i)
  IN /\ pc' = [pc EXCEPT ![r] = t]
     /\ elapsed' = [elapsed EXCEPT ![r] = 0]
     /\ IF t > Len(P)
        THEN /\ exc' = [exc EXCEPT ![r] = P[i].ln]
             /\ pending' = [pending EXCEPT ![r] = 0]
        ELSE /\ exc' = exc
             /\ pending' = [pending EXCEPT ![r] =
                              IF StaysPending(P, i) THEN P[i].ln ELSE 0]
     /\ UNCHANGED facts

(***************************************************************************)
(* The actions: one per kind of call.                                      *)
(***************************************************************************)

\* The processes in `started` are each about to execute the first statement
\* of some script; the directory "verification" may or may not exist yet.
InitRuns(started) ==
  /\ \E f \in [started -> Scripts] :
       script = [r \in Runs |-> IF r \in started THEN f[r] ELSE "idle"]
  /\ pc = [r \in Runs |-> IF r \in started THEN 1 ELSE 0]
  /\ facts = [r \in Runs |-> {}]
  /\ pending = [r \in Runs |-> 0]
  /\ exc = [r \in Runs |-> 0]
  /\ trace = [r \in Runs |-> <<>>]
  /\ dirExists \in BOOLEAN
  /\ files = [p \in Paths |-> {}]
  /\ browser = [r \in Runs |-> "none"]
  /\ elapsed = [r \in Runs |-> 0]

\* One script is run on its own.
Init == InitRuns({"run_a"})

\* Two scripts are run at the same time.
InitConc == InitRuns(Runs)

\* os.path.exists("verification")
Exists(r) ==
  /\ Running(r) /\ Cur(r).op = "exists"
  /\ Log(r, IF dirExists THEN "yes" ELSE "no")
  /\ Complete(r, facts[r] \cup {<<Cur(r).tag, dirExists>>})
  /\ Session(r, browser[r])
  /\ UNCHANGED <<script, dirExists, files>>

\* os.makedirs("verification"): raises FileExistsError when the directory
\* has appeared since the check.
MakeDirs(r) ==
  /\ Running(r) /\ Cur(r).op = "makedirs"
  /\ IF dirExists
     THEN Log(r, "raise") /\ Throw(r) /\ UNCHANGED dirExists
     ELSE Log(r, "ok") /\ Complete(r, facts[r]) /\ dirExists' = TRUE
  /\ Session(r, browser[r])
  /\ UNCHANGED <<script, files>>

\* p.chromium.launch / browser.new_context / new_page succeed.
OpenSession(r) ==
  /\ Running(r) /\ Cur(r).op \in SessionOps
  /\ Log(r, "ok")
  /\ Complete(r, facts[r])
  /\ Session(r, IF Cur(r).op = "launch" THEN "open" ELSE browser[r])
  /\ UNCHANGED <<script, dirExists, files>>

\* A page call (goto, wait, click, evaluate, expect, ...) succeeds.
PageCall(r) ==
  /\ Running(r) /\ Cur(r).op \in PageOps \cup QuietOps
  /\ Log(r, "ok")
  /\ Complete(r, facts[r])
  /\ Session(r, browser[r])
  /\ UNCHANGED <<script, dirExists, files>>

\* A visibility / count / equality check comes out b.
Probe(r) ==
  /\ Running(r) /\ Cur(r).op \in ProbeOps \ {"exists"}
  /\ \E b \in BOOLEAN :
       /\ Log(r, IF b THEN "yes" ELSE "no")
       /\ Complete(r, facts[r] \cup {<<Cur(r).tag, b>>})
  /\ Session(r, browser[r])
  /\ UNCHANGED <<script, dirExists, files>>

\* page.screenshot / locator.screenshot succeeds: Playwright creates the
\* parent directory of the path and writes the file.
Screenshot(r) ==
  /\ Running(r) /\ Cur(r).op = "screenshot"
  /\ Log(r, "ok")
  /\ Complete(r, facts[r])
  /\ files' = [files EXCEPT ![Cur(r).path] = @ \cup {r}]
  /\ dirExists' = (dirExists \/ InVerificationDir(Cur(r).path))
  /\ Session(r, browser[r])
  /\ UNCHANGED script

\* print(...)
Report(r) ==
  /\ Running(r) /\ Cur(r).op = "print"
  /\ Log(r, "ok")
  /\ Complete(r, facts[r])
  /\ Session(r, browser[r])
  /\ UNCHANGED <<script, dirExists, files>>

\* browser.close() succeeds.
Close(r) ==
  /\ Running(r) /\ Cur(r).op = "close"
  /\ Log(r, "ok")
  /\ Complete(r, facts[r])
  /\ Session(r, "closed")
  /\ UNCHANGED <<script, dirExists, files>>

\* A Playwright call raises (timeout, no target, no popup, browser error).
Raise(r) ==
  /\ Running(r) /\ Cur(r).op \in RaisingOps
  /\ Log(r, "raise")
  /\ Throw(r)
  /\ Session(r, browser[r])
  /\ UNCHANGED <<script, dirExists, files>>

Next ==
  \E r \in Runs :
    \/ Exists(r)
    \/ MakeDirs(r)
    \/ OpenSession(r)
    \/ PageCall(r)
    \/ Probe(r)
    \/ Screenshot(r)
    \/ Report(r)
    \/ Close(r)
    \/ Raise(r)

\* Time passes while the current call of run r waits for the page.
Wait(r) ==
  /\ Suspended(r) /\ CanWait(r)
  /\ elapsed' = [elapsed EXCEPT ![r] = IF @ < ClockCap THEN @ + 1 ELSE @]
  /\ UNCHANGED <<script, pc, facts, pending, exc, trace, dirExists, files,
                 browser>>

\* The timeout of a waiting call has elapsed: the call raises TimeoutError.
Expire == \E r \in Runs : Suspended(r) /\ ~CanWait(r) /\ Raise(r)

\* A call that does not wait for the page returns or raises.
Steady ==
  \E r \in Runs :
    /\ Running(r) /\ ~Suspended(r)
    /\ \/ Exists(r) \/ MakeDirs(r) \/ OpenSession(r) \/ PageCall(r)
       \/ Probe(r) \/ Screenshot(r) \/ Report(r) \/ Close(r) \/ Raise(r)

NextLive == Next \/ \E r \in Runs : Wait(r)

Spec == Init /\ [][Next]_vars

\* The run with time: the clock advances, an elapsed timeout fires, and a
\* call that does not wait returns.  The page itself owes nothing: a waiting
\* call need not ever succeed.
SpecLive ==
  /\ Init /\ [][NextLive]_vars
  /\ WF_vars(\E r \in Runs : Wait(r))
  /\ WF_vars(Expire)
  /\ WF_vars(Steady)

SpecConc == InitConc /\ [][Next]_vars

(***************************************************************************)
(* Observations on a run.                                                  *)
(***************************************************************************)

Idx(r) == DOMAIN trace[r]

\* The number of browser.close() calls run r has issued.
CloseCalls(r) == Cardinality({ i \in Idx(r) : trace[r][i].op = "close" })

\* browser.new_page() / context.new_page() has returned a page.
PageCreated(r) ==
  \E i \in Idx(r) : trace[r][i].op = "new_page" /\ trace[r][i].res = "ok"

\* The steps of a scenario: every call on the page, screenshots included.
StepOps == PageOps \cup {"screenshot"}

\* The positions at which a step of the scenario raised.
FailedSteps(r) ==
  { i \in Idx(r) : trace[r][i].op \in StepOps /\ trace[r][i].res = "raise" }

\* The call whose exception left the script (exc[r] # 0): the last call that
\* raised on line exc[r].
Escaped(r) ==
  LET c == { i \in Idx(r) : trace[r][i].res = "raise" /\ trace[r][i].ln = exc[r] }
  IN trace[r][CHOOSE i \in c : \A k \in c : k <= i]

\* A check of the scenario came out negative (FAILURE or "not found" printed).
CheckFailed(r) ==
  \E i \in Idx(r) : trace[r][i].op = "print"
                    /\ trace[r][i].tag \in {"failure", "notfound"}

TryScripts == {"verify_ui", "verify_logo", "verify_scrollbars",
               "verify_scrollbars_overlay"}

(***************************************************************************)
(* The claims.                                                             *)
(***************************************************************************)

\* C1: in every script, whichever step raises, browser.close() has been
\* called exactly once when the run ends.
C1_CloseExactlyOnce ==
  \A r \in Runs : (Done(r) /\ PageCreated(r)) => CloseCalls(r) = 1

\* C2: in every script, whenever a step fails, a screenshot is attempted
\* after the failure and before the browser is closed.
C2_ScreenshotAfterFailure ==
  \A r \in Runs :
    (Done(r) /\ FailedSteps(r) # {}) =>
      LET first == CHOOSE i \in FailedSteps(r) : \A k \in FailedSteps(r) : i <= k
      IN \E j \in Idx(r) :
           /\ j > first
           /\ trace[r][j].op = "screenshot"
           /\ \A k \in Idx(r) : trace[r][k].op = "close" => k > j

\* C3: in verify_ui, verify_logo, verify_scrollbars and
\* verify_scrollbars_overlay, a page.screenshot that raises inside the error
\* handler is absorbed: its exception never leaves the scenario function.
C3_CaptureFailureAbsorbed ==
  \A r \in Runs :
    (Done(r) /\ script[r] \in TryScripts /\ exc[r] # 0) =>
      ~(Escaped(r).op = "screenshot" /\ Escaped(r).reg \in {"exc", "excTry"})

\* C4: in every script, a wait that times out, an action that finds no target
\* or a popup that does not open is caught inside the scenario function: the
\* function returns without raising it.
C4_StepErrorsCaught ==
  \A r \in Runs :
    (Done(r) /\ exc[r] # 0) => Escaped(r).op \notin PageOps

\* C5: the exit status of a run is 0 if and only if every step and every
\* check of the scenario passed.
C5_ExitStatusReflectsOutcome ==
  \A r \in Runs :
    Done(r) =>
      (ExitStatus(r) = 0 <=>
         (\A i \in Idx(r) : trace[r][i].res # "raise") /\ ~CheckFailed(r))

\* The positions of run r's trace holding a call op.
At(r, op) == { i \in Idx(r) : trace[r][i].op = op }

\* The Documentation click of verify_links (line 55).
DocClicks(r) == { i \in At(r, "click") : trace[r][i].tag = "doc" }

\* The popup was captured: leaving the expect_popup block returned normally.
PopupCaptured(r, before) ==
  \E w \in At(r, "popup_wait") : w < before /\ trace[r][w].res = "ok"

\* No popup opened within the timeout: leaving the expect_popup block raised.
PopupTimedOut(r) ==
  \E w \in At(r, "popup_wait") : trace[r][w].res = "raise"

\* The statements that use the popup (lines 56-62).
PopupDependent(e) ==
  \/ e.op \in {"popup_value", "popup_url"}
  \/ e.op \in {"compare", "print"} /\ e.ln \in {59, 60, 62}

\* C6: the Documentation click of verify_links is issued while the popup
\* capture is armed (armed before the click, not yet waited for), the popup's
\* URL is read only after the popup was captured, and the URL is compared only
\* on runs where a popup was captured.
C6_PopupTwoPhase ==
  \A r \in Runs :
    /\ \A c \in DocClicks(r) :
         /\ \E a \in At(r, "expect_popup") : a < c
         /\ \A w \in At(r, "popup_wait") : c < w
    /\ \A u \in At(r, "popup_url") : PopupCaptured(r, u)
    /\ \A k \in At(r, "compare") : trace[r][k].tag = "doc" => PopupCaptured(r, k)

\* A finished verify_links run that clicked Documentation, captured the popup
\* and compared its URL.
C6_Witness ==
  \E r \in Runs :
    /\ Done(r) /\ script[r] = "verify_links"
    /\ DocClicks(r) # {}
    /\ \E k \in At(r, "compare") : trace[r][k].tag = "doc" /\ PopupCaptured(r, k)

\* C7: when the Documentation click opens no popup within the timeout, the
\* run reports the failure instead of crashing on it, executes none of the
\* statements that depend on the popup, and still calls browser.close().
C7_PopupNotOpened ==
  \A r \in Runs :
    PopupTimedOut(r) =>
      /\ \A i \in Idx(r) : ~PopupDependent(trace[r][i])
      /\ Done(r) =>
           /\ \E i \in At(r, "print") :
                trace[r][i].reg = "popupExc" /\ trace[r][i].tag = "err"
           /\ CloseCalls(r) = 1
           /\ exc[r] # 0 => Escaped(r).op # "popup_wait"

\* A finished verify_links run whose Documentation click opened no popup.
C7_Witness ==
  \E r \in Runs :
    Done(r) /\ script[r] = "verify_links" /\ PopupTimedOut(r) /\ exc[r] = 0

\* C8: an exception raised by browser.close() is not propagated out of the
\* run, so the caller never observes the close error.
C8_CloseErrorNotPropagated ==
  \A r \in Runs :
    (Done(r) /\ exc[r] # 0) => Escaped(r).op # "close"

\* C9: starting with no directory "verification", the directory exists at
\* every screenshot call that writes into it.
C9_DirectoryBeforeScreenshot ==
  \A r \in Runs : \A i \in At(r, "screenshot") :
    InVerificationDir(trace[r][i].path) => trace[r][i].dir

\* C10 (as claimed): no artifact path is written by two runs.
C10_NoSharedPath ==
  \A p \in Paths : Cardinality(files[p]) <= 1

\* C10 (amended): two runs that write the same artifact path are runs of the
\* same script; runs of two different scripts never write the same path.
C10_DistinctScriptsDistinctPaths ==
  \A p \in Paths : \A r1, r2 \in files[p] : script[r1] = script[r2]

\* Two finished runs of different scripts, each having written a file.
C10_Witness ==
  /\ \A r \in Runs : Done(r) /\ \E p \in Paths : r \in files[p]
  /\ \E r1, r2 \in Runs : script[r1] # script[r2]

\* The actions that trigger an asynchronous update of the page.
AsyncOps == {"goto", "reload", "click"}

\* The calls that wait on the page: an explicit wait, an auto-waiting
\* expect(...), the wait for the popup, a fixed sleep.
WaitOps == {"wait_for_selector", "wait_for_load_state", "expect_visible",
            "popup_wait", "sleep"}

\* The captures, reads and actions issued on the page.
UseOps == {"screenshot", "is_visible", "count", "get_attribute", "title",
           "evaluate", "goto", "reload", "click", "expect_popup"}

\* C11: in every script, the call that follows a completed goto, reload or
\* click is a wait: no capture, read or action is issued directly after it.
C11_WaitAfterAsyncAction ==
  \A r \in Runs : \A i \in Idx(r) :
    (/\ trace[r][i].op \in AsyncOps
     /\ trace[r][i].res = "ok"
     /\ i + 1 \in Idx(r))
    => trace[r][i+1].op \notin UseOps

\* The locator checks of the claim: textarea.count() (verify_auto_edit.py:19),
\* is_visible of the About item (verify_links.py:21), logo.is_visible()
\* (verify_logo.py:27).
LocatorTags == {"textarea", "about", "logo"}

\* The positions at which such a check found no element.
AbsentAt(r) ==
  { i \in Idx(r) : /\ trace[r][i].op \in {"count", "is_visible"}
                   /\ trace[r][i].tag \in LocatorTags
                   /\ trace[r][i].res = "no" }

\* The lines that run only when the element was found.
DependentLines(s) ==
  CASE s = "verify_auto_edit" -> {20, 21}
    [] s = "verify_links"     -> {22, 23, 26, 29, 32, 35, 36, 38}
    [] s = "verify_logo"      -> {28}
    [] OTHER                  -> {}

\* The line executed next when the element was not found.
LineAfterAbsent(s) ==
  CASE s = "verify_auto_edit" -> 23
    [] s = "verify_links"     -> 40
    [] s = "verify_logo"      -> 30
    [] OTHER                  -> 0

\* What holds of an absent element: count() / is_visible() do not raise, the
\* dependent statements are skipped, the next statement of the script runs,
\* and a run in which no later call raises ends with browser.close() called
\* once and no exception.
AbsentElementSkipsDependents ==
  \A r \in Runs :
    /\ \A i \in Idx(r) :
         trace[r][i].op \in {"count", "is_visible"} => trace[r][i].res # "raise"
    /\ \A i \in AbsentAt(r) :
         /\ \A j \in Idx(r) : j > i => trace[r][j].ln \notin DependentLines(script[r])
         /\ i + 1 \in Idx(r) => trace[r][i+1].ln = LineAfterAbsent(script[r])
         /\ Done(r) => i + 1 \in Idx(r)
         /\ (Done(r) /\ \A j \in Idx(r) : j > i => trace[r][j].res # "raise")
              => CloseCalls(r) = 1 /\ exc[r] = 0

\* A finished verify_links run in which the About item was absent.
AbsentElementRun ==
  \E r \in Runs :
    /\ Done(r) /\ script[r] = "verify_links"
    /\ AbsentAt(r) # {}
    /\ CloseCalls(r) = 1

\* C12: when count() / is_visible() finds no element, the check does not
\* raise, the dependent statements are skipped, and the run goes on to reach
\* browser.close().
C12_AbsentElementReachesClose ==
  /\ AbsentElementSkipsDependents
  /\ \A r \in Runs : (Done(r) /\ AbsentAt(r) # {}) => CloseCalls(r) = 1

RaisedAt(r) == { i \in Idx(r) : trace[r][i].res = "raise" }

\* C14: the statements of a run execute in program order, and in verify_ui,
\* verify_logo, verify_scrollbars and verify_scrollbars_overlay no statement
\* of the try block (success message and success-path screenshots included)
\* executes after a statement has raised.
C14_ProgramOrder ==
  \A r \in Runs :
    /\ \A i, j \in Idx(r) : i < j => trace[r][i].at < trace[r][j].at
    /\ script[r] \in TryScripts =>
         \A j \in Idx(r) : trace[r][j].reg = "try" =>
           \A i \in RaisedAt(r) : j <= i

\* A finished run of a try script in which a statement of the try block
\* raised and the handler and the finally block ran.
C14_Witness ==
  \E r \in Runs :
    /\ Done(r) /\ script[r] \in TryScripts
    /\ \E i \in RaisedAt(r) : trace[r][i].reg = "try" /\ i + 2 \in Idx(r)

\* C16: in verify_ui, verify_logo, verify_scrollbars and
\* verify_scrollbars_overlay, once the page has been created browser.close()
\* is called exactly once on every path, also when a step raises and the
\* error-path screenshot raises as well.
C16_CloseOnceInTryScripts ==
  \A r \in Runs :
    (Done(r) /\ script[r] \in TryScripts /\ PageCreated(r)) => CloseCalls(r) = 1

\* A finished run in which a step raised, the error-path screenshot raised
\* too, and browser.close() was called once.
C16_Witness ==
  \E r \in Runs :
    /\ Done(r) /\ script[r] \in TryScripts
    /\ \E i, j \in RaisedAt(r) :
         /\ trace[r][i].reg = "try"
         /\ trace[r][j].reg \in {"exc", "excTry"} /\ trace[r][j].op = "screenshot"
    /\ CloseCalls(r) = 1

\* The calls issued on the session: creating it and every page operation.
SessionUse == SessionOps \cup PageOps \cup QuietOps \cup {"screenshot", "is_visible", "count"}

\* One step of the browser's life: none -> open -> closed, never back.
LifecycleStep ==
  \A r \in Runs :
    browser'[r] # browser[r] =>
      <<browser[r], browser'[r]>> \in {<<"none", "open">>, <<"open", "closed">>}

\* C15: the session of a run goes none -> open -> closed and never back, the
\* browser is launched at most once, and no launch and no page operation is
\* issued after browser.close() has been called, on any path.
C15_SessionLifecycle ==
  /\ [][LifecycleStep]_vars
  /\ [](\A r \in Runs :
          /\ Cardinality(At(r, "launch")) <= 1
          /\ \A c \in At(r, "close") : \A j \in Idx(r) :
               j > c => trace[r][j].op \notin SessionUse \cup {"close"})

\* A finished run in which a step raised, the error-path screenshot was taken
\* and the browser was then closed.
C15_Witness ==
  \E r \in Runs :
    /\ Done(r) /\ browser[r] = "closed" /\ RaisedAt(r) # {}
    /\ \E j \in At(r, "screenshot") : trace[r][j].reg \in {"exc", "excTry"}
    /\ \E c \in At(r, "close") : trace[r][c].res = "ok"

====
